---- MODULE Spec2Model ----
(***************************************************************************)
(* Model of the GraphQL Todo service of src/main.go.                       *)
(*                                                                         *)
(* State: the package-level slice TodoList, the sqlite file ./test.db      *)
(* reached through xorm (db), and the last two HTTP exchanges answered by  *)
(* serveGraphQL (resp, prev).  One action per handler path: main's         *)
(* start-up, a request whose body does not decode, and one request per     *)
(* root field (createTodo, updateTodo, todo, todoList).                    *)
(*                                                                         *)
(* Behaviour of the two libraries the resolvers call, as far as the        *)
(* resolvers depend on it:                                                 *)
(*  - graphql-go hands an Int argument to the resolver as a Go int, a      *)
(*    String as a Go string, a Boolean as a Go bool; a missing argument    *)
(*    has no entry in params.Args.  A missing non-null argument or a       *)
(*    literal of the wrong type fails validation and no resolver runs.     *)
(*  - xorm builds the SET list of Update and the WHERE list of Get from    *)
(*    the bean's non-zero fields, never from bool fields, and never from   *)
(*    the auto-increment key in a SET list; a struct with a version        *)
(*    column is inserted with version 1, and Update adds                   *)
(*    "version = version + 1 ... WHERE version = <bean's version>".        *)
(*    Get leaves the bean untouched when no row matches.  When the SET     *)
(*    list holds nothing but the version, the xorm generations differ: one *)
(*    emits "SET , version = ..." and the statement fails, the other runs  *)
(*    it.  The go-get build fixes which; xormBuild is chosen in Init.      *)
(*                                                                         *)
(* Each request is one step: the handler runs from Decode to Encode        *)
(* without another request in between.                                     *)
(***************************************************************************)
EXTENDS Integers, Sequences, FiniteSets

VARIABLES pc, TodoList, db, xormBuild, resp, prev, createdTexts

vars == <<pc, TodoList, db, xormBuild, resp, prev, createdTexts>>

\* ---------------------------------------------------------------- bounds
MaxCreates == 2
MaxId == 4

\* ------------------------------------------------------------- the entity
Todo(id, text, done, version) ==
  [Id |-> id, Text |-> text, Done |-> done, Version |-> version]

ZeroTodo == Todo(0, "", FALSE, 0)

\* What todoType exposes of a Todo: Id, Text, Done (no Version field).
todoType(t) == [Id |-> t.Id, Text |-> t.Text, Done |-> t.Done]

SeedList ==
  << Todo(1, "A todo not to forget", FALSE, 0),
     Todo(2, "This is the most important", FALSE, 0),
     Todo(3, "Please do this or else", FALSE, 0) >>

NewID == 4

\* ------------------------------------------------- request argument values
\* A literal in the query text, or its absence.
Lit(kind, i, s, b) == [kind |-> kind, i |-> i, s |-> s, b |-> b]
NoArg == Lit("absent", 0, "", FALSE)
IntLit(i) == Lit("int", i, "", FALSE)
StrLit(s) == Lit("string", 0, s, FALSE)
BoolLit(b) == Lit("bool", 0, "", b)

Texts == {"buy milk", "My new todo"}
ArgIds == 0..MaxId

TextArgs == {NoArg, IntLit(7)} \cup {StrLit(s) : s \in Texts}
IdArgs == {NoArg, StrLit("b")} \cup {IntLit(i) : i \in ArgIds}
DoneArgs == {NoArg, StrLit("yes"), BoolLit(TRUE), BoolLit(FALSE)}

\* Variant: NewNonNull dropped from the declaration, a missing argument passes.
ArgValid_Nullable(lit, type, nonNull) ==
  lit.kind = "absent" \/ lit.kind = type

\* Validation of one argument against its declared type.
ArgValid(lit, type, nonNull) ==
  IF lit.kind = "absent" THEN ~nonNull ELSE lit.kind = type

\* The Go value params.Args holds for a validated literal: an Int literal
\* becomes a Go int, a missing argument the nil interface.
ArgValue(lit) ==
  [gotype |-> IF lit.kind = "absent" THEN "nil" ELSE lit.kind,
   i |-> lit.i, s |-> lit.s, b |-> lit.b]

\* v.(string), v.(bool), v.(int64): the value and whether the assertion held.
AssertString(v) ==
  IF v.gotype = "string" THEN [v |-> v.s, ok |-> TRUE] ELSE [v |-> "", ok |-> FALSE]
AssertBool(v) ==
  IF v.gotype = "bool" THEN [v |-> v.b, ok |-> TRUE] ELSE [v |-> FALSE, ok |-> FALSE]
\* Variant: the assertion written for the type graphql-go delivers, v.(int).
AssertInt64_Int(v) ==
  IF v.gotype = "int" THEN [v |-> v.i, ok |-> TRUE] ELSE [v |-> 0, ok |-> FALSE]
AssertInt64(v) ==
  IF v.gotype = "int64" THEN [v |-> v.i, ok |-> TRUE] ELSE [v |-> 0, ok |-> FALSE]

\* ------------------------------------------------------------------- xorm
XormBuilds == {"setlist", "checked"}

RowIds(rows) == {r.Id : r \in rows}

\* The conditions xorm derives from a bean: its non-zero, non-bool fields.
XormCond(bean, r) ==
  /\ (bean.Id # 0 => r.Id = bean.Id)
  /\ (bean.Text # "" => r.Text = bean.Text)
  /\ (bean.Version # 0 => r.Version = bean.Version)

\* Id(x) puts "id = x" in the WHERE list; idParam is <<>> or <<x>>.
XormIdCond(idParam, r) == Len(idParam) = 0 \/ r.Id = idParam[1]

FirstRow(rows) == CHOOSE r \in rows : \A q \in rows : r.Id <= q.Id

\* engine.[Id(x).]Get(&bean)
XormGet(rows, idParam, bean) ==
  LET hit == {r \in rows : XormIdCond(idParam, r) /\ XormCond(bean, r)}
  IN  IF hit = {} THEN [has |-> FALSE, bean |-> bean]
      ELSE [has |-> TRUE, bean |-> FirstRow(hit)]

\* engine.Insert(slice): one multi-row INSERT; a duplicate key fails it whole.
XormInsert(rows, beans) ==
  LET ids == {beans[k].Id : k \in 1..Len(beans)}
  IN  IF ids \cap RowIds(rows) # {} \/ Cardinality(ids) # Len(beans)
      THEN rows
      ELSE rows \cup {[beans[k] EXCEPT !.Version = 1] : k \in 1..Len(beans)}

\* engine.[Id(x).]Update(bean): SET <non-empty text>, version = version + 1
\* WHERE [id = x AND] version = bean.Version.  With nothing but the version
\* to set, one generation of xorm emits "SET , version = ..." (a syntax
\* error), the other runs the statement.
XormUpdate(rows, idParam, bean, build) ==
  LET setText == bean.Text # ""
      match(r) == XormIdCond(idParam, r) /\ r.Version = bean.Version
  IN  IF ~setText /\ build = "setlist"
      THEN [rows |-> rows, affected |-> 0, err |-> TRUE]
      ELSE [rows |-> {IF match(r)
                      THEN [r EXCEPT !.Text = IF setText THEN bean.Text ELSE @,
                                     !.Version = @ + 1]
                      ELSE r : r \in rows},
            affected |-> Cardinality({r \in rows : match(r)}),
            err |-> FALSE]

\* ------------------------------------------------------------ the exchange
\* form: how the request carries the query.  Only a JSON body decodes.
Forms == {"GET_url", "POST_url", "POST_json", "POST_garbage"}
BodyDecodes(form) == form = "POST_json"
CarriesQuery(form) == form # "POST_garbage"

Exchange(form, op, id, text, done, status, executed, resolved, errors, data) ==
  [form |-> form, op |-> op, id |-> id, text |-> text, done |-> done,
   status |-> status, executed |-> executed, resolved |-> resolved,
   errors |-> errors, data |-> data]

NoExchange ==
  Exchange("none", "none", NoArg, NoArg, NoArg, 0, FALSE, FALSE, "none", <<>>)

\* serveGraphQL on a body that decodes: graphql.Do ran, status 200.
Answered(op, id, text, done, resolved, errors, data) ==
  Exchange("POST_json", op, id, text, done, 200, TRUE, resolved, errors, data)

\* What is remembered of the exchange before the last one.
Summary(e) == [op |-> e.op, id |-> e.id, done |-> e.done, errors |-> e.errors]

ListData(list) == [k \in 1..Len(list) |-> todoType(list[k])]

\* ------------------------------------------------------------------- Init
Init ==
  /\ pc = "boot"
  /\ TodoList = SeedList
  /\ db = {}
  /\ xormBuild \in XormBuilds
  /\ resp = NoExchange
  /\ prev = Summary(NoExchange)
  /\ createdTexts = <<>>

\* ------------------------------------------------------------------- main
Main ==
  /\ pc = "boot"
  /\ LET inserted == XormInsert(db, TodoList)
         todo == XormGet(inserted, <<1>>, ZeroTodo).bean
         done == [todo EXCEPT !.Done = TRUE]
     IN  db' = XormUpdate(inserted, <<>>, done, xormBuild).rows
  /\ pc' = "serving"
  /\ UNCHANGED <<TodoList, xormBuild, resp, prev, createdTexts>>

\* ---------------------------------------------------------- serveGraphQL
\* The body does not decode: 500 with the error text, graphql.Do never runs.
ServeDecodeError ==
  /\ pc = "serving"
  /\ \E form \in Forms :
       /\ ~BodyDecodes(form)
       /\ resp' = Exchange(form, "none", NoArg, NoArg, NoArg,
                           500, FALSE, FALSE, "decode", <<>>)
  /\ prev' = Summary(resp)
  /\ UNCHANGED <<pc, TodoList, db, xormBuild, createdTexts>>

\* ------------------------------------------------------------- createTodo
\* Variant: a record whose Id is already listed replaces it (an upsert on Id).
CreateTodoResolve_Upsert(list, text) ==
  IF \E k \in 1..Len(list) : list[k].Id = NewID
  THEN [k \in 1..Len(list) |->
          IF list[k].Id = NewID THEN Todo(NewID, text, FALSE, 0) ELSE list[k]]
  ELSE Append(list, Todo(NewID, text, FALSE, 0))

CreateTodoResolve(list, text) == Append(list, Todo(NewID, text, FALSE, 0))

CreateTodo ==
  /\ pc = "serving"
  /\ \E text \in TextArgs :
       IF ArgValid(text, "string", TRUE)
       THEN LET Text == AssertString(ArgValue(text)).v
            IN  /\ Len(TodoList) < Len(SeedList) + MaxCreates
                /\ TodoList' = CreateTodoResolve(TodoList, Text)
                /\ createdTexts' = Append(createdTexts, Text)
                /\ resp' = Answered("createTodo", NoArg, text, NoArg, TRUE, "none",
                                    <<todoType(Todo(NewID, Text, FALSE, 0))>>)
       ELSE /\ resp' = Answered("createTodo", NoArg, text, NoArg, FALSE,
                                "validation", <<>>)
            /\ UNCHANGED <<TodoList, createdTexts>>
  /\ prev' = Summary(resp)
  /\ UNCHANGED <<pc, db, xormBuild>>

\* ------------------------------------------------------------- updateTodo
UpdateTodo ==
  /\ pc = "serving"
  /\ \E id \in IdArgs, done \in DoneArgs :
       IF ArgValid(id, "int", TRUE) /\ ArgValid(done, "bool", FALSE)
       THEN LET DoneParam == AssertBool(ArgValue(done)).v
                IdParam == AssertInt64(ArgValue(id)).v
                todo == Todo(IdParam, "", DoneParam, 0)
                upd == XormUpdate(db, <<IdParam>>, todo, xormBuild)
                got == XormGet(upd.rows, <<>>, todo)
            IN  /\ db' = upd.rows
                /\ resp' = IF upd.err
                           THEN Answered("updateTodo", id, NoArg, done, TRUE,
                                         "resolver", <<>>)
                           ELSE Answered("updateTodo", id, NoArg, done, TRUE,
                                         "none", <<todoType(got.bean)>>)
       ELSE /\ resp' = Answered("updateTodo", id, NoArg, done, FALSE,
                                "validation", <<>>)
            /\ UNCHANGED db
  /\ prev' = Summary(resp)
  /\ UNCHANGED <<pc, TodoList, xormBuild, createdTexts>>

\* ------------------------------------------------------------------- todo
TodoResolve(rows, arg) ==
  LET idQuery == AssertInt64(arg)
  IN  IF idQuery.ok
      THEN XormGet(rows, <<>>, Todo(idQuery.v, "", FALSE, 0)).bean
      ELSE ZeroTodo

TodoQuery ==
  /\ pc = "serving"
  /\ \E id \in IdArgs :
       resp' = IF ArgValid(id, "int", FALSE)
               THEN Answered("todo", id, NoArg, NoArg, TRUE, "none",
                             <<todoType(TodoResolve(db, ArgValue(id)))>>)
               ELSE Answered("todo", id, NoArg, NoArg, FALSE, "validation", <<>>)
  /\ prev' = Summary(resp)
  /\ UNCHANGED <<pc, TodoList, db, xormBuild, createdTexts>>

\* --------------------------------------------------------------- todoList
\* engine.Find(&all) fills a local that is printed and dropped.
TodoListResolve(list, rows) == list

TodoListQuery ==
  /\ pc = "serving"
  /\ resp' = Answered("todoList", NoArg, NoArg, NoArg, TRUE, "none",
                      ListData(TodoListResolve(TodoList, db)))
  /\ prev' = Summary(resp)
  /\ UNCHANGED <<pc, TodoList, db, xormBuild, createdTexts>>

Next ==
  \/ Main
  \/ ServeDecodeError
  \/ CreateTodo
  \/ UpdateTodo
  \/ TodoQuery
  \/ TodoListQuery

Spec == Init /\ [][Next]_vars

\* ================================================================ claims
\* The record stored under id x (x is a key of rows).
StoredRow(rows, x) == CHOOSE r \in rows : r.Id = x

\* The records todoList serves in the current state, and the stored ones.
ServedSet == {todoType(TodoList[k]) : k \in 1..Len(TodoList)}
StoredSet == {todoType(r) : r \in db}

\* C1: todoList returns the seed records followed by one record per
\* successful createTodo call, each with the text of its call and
\* Done = FALSE; its length is the seeds plus the successful calls.
C1_ListIsSeedsPlusCreated ==
  (pc = "serving" /\ resp.op = "todoList") =>
    LET d == resp.data
        n == Len(SeedList)
    IN  /\ resp.errors = "none"
        /\ Len(d) = n + Len(createdTexts)
        /\ \A k \in 1..n : d[k] = todoType(SeedList[k])
        /\ \A k \in 1..Len(createdTexts) :
             d[n + k].Text = createdTexts[k] /\ d[n + k].Done = FALSE

C1_Witness ==
  /\ resp.op = "todoList"
  /\ createdTexts = <<"buy milk", "My new todo">>
  /\ Len(resp.data) = Len(SeedList) + 2

\* C2: a successful updateTodo(Id: X, Done: true) on an existing X, followed
\* directly by todo(Id: X), yields a Todo with Id X and Done = TRUE.
C2_UpdateThenTodoShowsDone ==
  ( /\ resp.op = "todo" /\ resp.id.kind = "int"
    /\ resp.id.i \in RowIds(db)
    /\ prev.op = "updateTodo" /\ prev.errors = "none"
    /\ prev.id = resp.id /\ prev.done = BoolLit(TRUE) )
  => ( /\ resp.errors = "none"
       /\ Len(resp.data) = 1
       /\ resp.data[1].Id = resp.id.i
       /\ resp.data[1].Done = TRUE )

\* C3: no two Todo records held by the service, in the served list or in
\* the store, have the same Id.
C3_IdsUnique ==
  /\ \A j, k \in 1..Len(TodoList) : j # k => TodoList[j].Id # TodoList[k].Id
  /\ \A r, q \in db : r.Id = q.Id => r = q

\* C4: a createTodo request without a string Text ends with a validation
\* error, its resolver does not run, and neither the served list nor the
\* store changes.
C4_MissingTextRejected ==
  [][ (resp'.op = "createTodo" /\ resp'.text.kind # "string") =>
        ( /\ resp'.errors = "validation"
          /\ ~resp'.resolved
          /\ TodoList' = TodoList
          /\ db' = db ) ]_vars

C4_Witness ==
  /\ resp.op = "createTodo"
  /\ resp.text = NoArg
  /\ resp.errors = "validation"
  /\ Len(createdTexts) = 1

\* C5: the records todoList returns are exactly the records persisted in
\* the store: same Id, Text and Done.
C5_ListIsStore ==
  pc = "serving" =>
    /\ ServedSet = StoredSet
    /\ (resp.op = "todoList" =>
          {resp.data[k] : k \in 1..Len(resp.data)} = StoredSet)

\* C6: a successful updateTodo(Id: X) returns the record stored under X
\* after the write.
C6_UpdateReturnsStored ==
  ( /\ resp.op = "updateTodo" /\ resp.resolved /\ resp.errors = "none"
    /\ resp.id.i \in RowIds(db) )
  => resp.data = <<todoType(StoredRow(db, resp.id.i))>>

\* C7: a request whose body does not decode gets a non-200 status and is
\* not executed; one that decodes is executed and answered 200; a request
\* to /graphql that carries the query, by GET or POST, is executed.
C7_QueryCarryingRequestsExecuted ==
  resp.form # "none" =>
    /\ (~BodyDecodes(resp.form) => resp.status # 200 /\ ~resp.executed)
    /\ (BodyDecodes(resp.form) => resp.status = 200 /\ resp.executed)
    /\ (CarriesQuery(resp.form) => resp.executed)

\* C8: todo(Id: X) for an X without a stored record always has the same
\* outcome: no error and the one empty Todo, whatever X is and whatever
\* ran before.
C8_MissingIdAlwaysEmpty ==
  ( /\ resp.op = "todo" /\ resp.resolved
    /\ resp.id.kind = "int" /\ resp.id.i \notin RowIds(db) )
  => (resp.errors = "none" /\ resp.data = <<todoType(ZeroTodo)>>)

C8_Witness ==
  /\ resp.op = "todo" /\ resp.resolved
  /\ resp.id = IntLit(NewID)
  /\ NewID \notin RowIds(db)
  /\ prev.op = "createTodo"
  /\ resp.data = <<todoType(ZeroTodo)>>

\* C9: a successful updateTodo(Id: X, Done: d) sets the stored Done of X to
\* d when Done is supplied, keeps it when Done is omitted, and changes no
\* other field of X and no other record.
C9_PartialUpdate ==
  [][ ( /\ resp'.op = "updateTodo" /\ resp'.resolved /\ resp'.errors = "none"
        /\ resp'.id.i \in RowIds(db) ) =>
        LET x == resp'.id.i
            old == StoredRow(db, x)
        IN  /\ x \in RowIds(db')
            /\ StoredRow(db', x).Done =
                 (IF resp'.done.kind = "bool" THEN resp'.done.b ELSE old.Done)
            /\ StoredRow(db', x).Text = old.Text
            /\ {r \in db' : r.Id # x} = {r \in db : r.Id # x} ]_vars

\* C10: a successful updateTodo of X adds exactly one to the stored version
\* of X, and a failed one changes nothing.
C10_VersionIncrement ==
  [][ (resp'.op = "updateTodo" /\ resp'.resolved /\ resp'.id.i \in RowIds(db)) =>
        LET x == resp'.id.i
        IN  IF resp'.errors = "none"
            THEN /\ x \in RowIds(db')
                 /\ StoredRow(db', x).Version = StoredRow(db, x).Version + 1
            ELSE db' = db ]_vars

====
